---- MODULE Spec2Model ----
(***************************************************************************)
(* Model of the market research cycle of ai-income-agents:                 *)
(*   src/agents/market_research_agent.py  (MarketResearchAgent.run)        *)
(*   src/utils/market_analyzer.py         (MarketAnalyzer)                 *)
(*                                                                         *)
(* Python values are modelled as follows.  A dict is a function whose      *)
(* domain is its key set (a record), a list is a sequence, a str that is   *)
(* built by formatting is the record [str |-> <<fragments>>] so that       *)
(* concatenation and prefixes are computed, None is the record None, and   *)
(* an exception is [kind |-> "raise", msg |-> str(e)].  datetime.now() is  *)
(* a logical clock that advances on every read.  Only faults that are      *)
(* instances of Exception are modelled (cancellation is not).              *)
(***************************************************************************)
EXTENDS Integers, Sequences, FiniteSets, TLC

\* ------------------------------------------------------------------ bounds
MaxCycles == 2
MaxShutdowns == 2

\* -------------------------------------------------------------- python values
None == [none |-> TRUE]
EmptyDict == <<>>
Str(frags) == [str |-> frags]
Concat(a, b) == [str |-> a.str \o b.str]
Get(d, k, default) == IF k \in DOMAIN d THEN d[k] ELSE default
DictSet(d, k, v) == [x \in (DOMAIN d) \cup {k} |-> IF x = k THEN v ELSE d[x]]
Return(v) == [kind |-> "return", value |-> v]
Raise(m) == [kind |-> "raise", msg |-> m]

\* ------------------------------------------------------------ input domains
\* coroutine slots: run() invocations that may be in progress on one agent
Slots == {1, 2}
\* the slot used when the scheduler awaits each run() before the next one
Sequential == {1}

FaultMsgs == {Str(<<"boom">>), Str(<<"bad value">>)}
TransportMsgs == {Str(<<"Cannot connect to host">>)}
StatusCodes == {200, 500}
StatusText == [s \in StatusCodes |-> CASE s = 200 -> "200" [] s = 500 -> "500"]
Bodies == {"{\"items\": [1]}", "<html>"}
Responses ==
    {[kind |-> "transport", msg |-> m] : m \in TransportMsgs}
    \cup {[kind |-> "http", status |-> 200, body |-> b] : b \in Bodies}
    \cup {[kind |-> "http", status |-> s, body |-> "<html>"] : s \in StatusCodes \ {200}}

\* response.json(): the parsed payload, or the decoder's exception
json(body) ==
    IF body = "{\"items\": [1]}"
    THEN Return([items |-> <<1>>])
    ELSE Raise(Str(<<"Expecting value: line 1 column 1 (char 0)">>))

\* ------------------------------------------------------------ MarketAnalyzer
\* self.api_endpoints: the endpoint key each network fetcher requests
api_endpoints == <<"trends", "competitors", "market_data">>
\* the 'source' literal of each task of gather_data, in task-list order
SourceTags == <<"industry_trends", "competitor_data", "market_demands", "social_media">>
NetworkTasks == {1, 2, 3}
StubTask == 4
TaskIds == NetworkTasks \cup {StubTask}

\* variant: no try/except around the request, a transport failure is raised
FetchEndpointNoCatch(tag, resp, ts) ==
    IF resp.kind = "transport"
    THEN Raise(resp.msg)
    ELSE IF resp.status = 200
         THEN LET data == json(resp.body) IN
              IF data.kind = "raise"
              THEN data
              ELSE Return([source |-> tag, data |-> data.value, timestamp |-> ts])
         ELSE Return([source |-> tag,
                      error |-> Str(<<"Failed to fetch data: ", StatusText[resp.status]>>),
                      timestamp |-> ts])

\* variant: the status is left out of the message
FetchEndpointNoStatus(tag, resp, ts) ==
    IF resp.kind = "transport"
    THEN Return([source |-> tag, error |-> resp.msg, timestamp |-> ts])
    ELSE IF resp.status = 200
         THEN LET data == json(resp.body) IN
              IF data.kind = "raise"
              THEN Return([source |-> tag, error |-> data.msg, timestamp |-> ts])
              ELSE Return([source |-> tag, data |-> data.value, timestamp |-> ts])
         ELSE Return([source |-> tag,
                      error |-> Str(<<"Failed to fetch data: ">>),
                      timestamp |-> ts])

\* variant: response.json() is called outside the try statement, a body
\* that does not parse raises out of the fetcher
FetchEndpointParseOutsideTry(tag, resp, ts) ==
    IF resp.kind = "transport"
    THEN Return([source |-> tag, error |-> resp.msg, timestamp |-> ts])
    ELSE IF resp.status = 200
         THEN LET data == json(resp.body) IN
              IF data.kind = "raise"
              THEN data
              ELSE Return([source |-> tag, data |-> data.value, timestamp |-> ts])
         ELSE Return([source |-> tag,
                      error |-> Str(<<"Failed to fetch data: ", StatusText[resp.status]>>),
                      timestamp |-> ts])

\* variant: a failed fetch reports 'data': None next to its 'error'
FetchEndpointDataNone(tag, resp, ts) ==
    IF resp.kind = "transport"
    THEN Return([source |-> tag, data |-> None, error |-> resp.msg, timestamp |-> ts])
    ELSE IF resp.status = 200
         THEN LET data == json(resp.body) IN
              IF data.kind = "raise"
              THEN Return([source |-> tag, data |-> None, error |-> data.msg,
                           timestamp |-> ts])
              ELSE Return([source |-> tag, data |-> data.value, timestamp |-> ts])
         ELSE Return([source |-> tag, data |-> None,
                      error |-> Str(<<"Failed to fetch data: ", StatusText[resp.status]>>),
                      timestamp |-> ts])

\* the body shared by _gather_industry_trends, _gather_competitor_data and
\* _gather_market_demands once session.get() has produced resp (or failed)
FetchEndpoint(tag, resp, ts) ==
    IF resp.kind = "transport"
    THEN Return([source |-> tag, error |-> resp.msg, timestamp |-> ts])
    ELSE IF resp.status = 200
         THEN LET data == json(resp.body) IN
              IF data.kind = "raise"
              THEN Return([source |-> tag, error |-> data.msg, timestamp |-> ts])
              ELSE Return([source |-> tag, data |-> data.value, timestamp |-> ts])
         ELSE Return([source |-> tag,
                      error |-> Str(<<"Failed to fetch data: ", StatusText[resp.status]>>),
                      timestamp |-> ts])

gather_industry_trends(tag, resp, ts) == FetchEndpoint(tag, resp, ts)
gather_competitor_data(tag, resp, ts) == FetchEndpoint(tag, resp, ts)
gather_market_demands(tag, resp, ts) == FetchEndpoint(tag, resp, ts)

Fetcher(i, tag, resp, ts) ==
    CASE i = 1 -> gather_industry_trends(tag, resp, ts)
      [] i = 2 -> gather_competitor_data(tag, resp, ts)
      [] i = 3 -> gather_market_demands(tag, resp, ts)

gather_social_media_trends(tag, ts) ==
    Return([source |-> tag, data |-> [trends |-> <<>>], timestamp |-> ts])

\* the entry the bundle keeps for one result (lines 147-151)
Entry(result) ==
    [data |-> Get(result, "data", EmptyDict),
     error |-> Get(result, "error", None),
     timestamp |-> Get(result, "timestamp", None)]

RECURSIVE CombineLoop(_, _)
CombineLoop(results, sources) ==
    IF results = <<>> THEN sources
    ELSE LET result == Head(results) IN
         IF "source" \in DOMAIN result /\ result.source # ""
         THEN CombineLoop(Tail(results),
                  DictSet(sources, result.source, Entry(result)))
         ELSE CombineLoop(Tail(results), sources)

\* variant: only the results that carry data get an entry
combine_data_skip_errors(results, ts) ==
    [timestamp |-> ts,
     sources |-> CombineLoop(SelectSeq(results, LAMBDA r : "data" \in DOMAIN r), EmptyDict)]

combine_data(results, ts) ==
    [timestamp |-> ts, sources |-> CombineLoop(results, EmptyDict)]

\* the six facets and the recommendation step, in evaluation order
Facets == <<"market_trends", "competitor_analysis", "opportunity_areas",
            "risk_factors", "market_sentiment", "growth_potential">>
AnalysisSteps == {Facets[k] : k \in 1..Len(Facets)} \cup {"recommendations"}
\* which step of analyze_data (if any) raises in this call, and with what
FaultPlans == {[step |-> "none", msg |-> Str(<<>>)]}
              \cup {[step |-> n, msg |-> m] : n \in AnalysisSteps, m \in FaultMsgs}

analyze_trends(data) ==
    [emerging_trends |-> <<>>, declining_trends |-> <<>>, stable_trends |-> <<>>]
analyze_competitors(data) ==
    [market_leaders |-> <<>>, emerging_competitors |-> <<>>, competitive_advantages |-> EmptyDict]
identify_opportunities_facet(data) == <<>>
assess_risks_facet(data) == <<>>
analyze_sentiment(data) == [overall |-> 0, by_sector |-> EmptyDict, by_product |-> EmptyDict]
assess_growth_potential(data) ==
    [short_term |-> EmptyDict, medium_term |-> EmptyDict, long_term |-> EmptyDict]
generate_recommendations_analyzer(analysis) == <<>>

Facet(name, data) ==
    CASE name = "market_trends" -> analyze_trends(data)
      [] name = "competitor_analysis" -> analyze_competitors(data)
      [] name = "opportunity_areas" -> identify_opportunities_facet(data)
      [] name = "risk_factors" -> assess_risks_facet(data)
      [] name = "market_sentiment" -> analyze_sentiment(data)
      [] name = "growth_potential" -> assess_growth_potential(data)

\* variant: the fault of a step is re-raised as it is
analyze_data_unwrapped(data, plan, ts) ==
    IF plan.step \in AnalysisSteps
    THEN Raise(plan.msg)
    ELSE LET analysis == [n \in AnalysisSteps \ {"recommendations"} |-> Facet(n, data)]
         IN Return([timestamp |-> ts,
                    analysis |-> analysis,
                    recommendations |-> generate_recommendations_analyzer(analysis)])

\* try: build analysis, read the clock, derive recommendations;
\* except Exception as e: raise Exception(f"Error analyzing market data: {str(e)}")
analyze_data(data, plan, ts) ==
    IF plan.step \in AnalysisSteps
    THEN Raise(Concat(Str(<<"Error analyzing market data: ">>), plan.msg))
    ELSE LET analysis == [n \in AnalysisSteps \ {"recommendations"} |-> Facet(n, data)]
         IN Return([timestamp |-> ts,
                    analysis |-> analysis,
                    recommendations |-> generate_recommendations_analyzer(analysis)])
\* datetime.now() at line 46 is evaluated unless a facet raised before it
AnalyzeReadsClock(plan) == plan.step \in {"none", "recommendations"}

\* ------------------------------------------------------------- TrendDetector
\* src/utils/trend_detector.py is not part of the sources: its two entry
\* points are modelled from the specification (section 4.4)
TrendLists == {<<>>, <<[classification |-> "emerging"]>>}
DetectOutcomes == {Return(t) : t \in TrendLists} \cup {Raise(m) : m \in FaultMsgs}
detect_trends(data, outcome) == outcome
identify_opportunities(trends, fault) ==
    IF trends = <<>> THEN Return(<<>>)
    ELSE IF fault.kind = "raise" THEN fault
    ELSE Return([k \in 1..Len(trends) |-> [opportunity |-> trends[k].classification]])
OpportunityFaults == {Return(<<>>)} \cup {Raise(m) : m \in FaultMsgs}

\* -------------------------------------------------------- MarketResearchAgent
extract_key_findings(analysis) == <<>>
generate_recommendations(trends) == <<>>
assess_risks(analysis, trends) == EmptyDict
generate_insights(analysis, trends, fault) ==
    IF fault.kind = "raise" THEN fault
    ELSE Return([key_findings |-> extract_key_findings(analysis),
                 recommendations |-> generate_recommendations(trends),
                 risk_assessment |-> assess_risks(analysis, trends)])
InsightFaults == {Return(<<>>)} \cup {Raise(m) : m \in FaultMsgs}

\* the stages of run() in program order (lines 21-29), and the stage that
\* run() enters when a stage has returned
Stages == <<"gather", "analyze", "detect_trends", "identify_opportunities", "generate_insights">>
\* variant: the trend detection is started before the analysis
StageAfterSwapped(stage) ==
    CASE stage = "gather" -> "detect_trends"
      [] stage = "detect_trends" -> "analyze"
      [] stage = "analyze" -> "identify_opportunities"
      [] stage = "identify_opportunities" -> "generate_insights"
      [] stage = "generate_insights" -> "return"
StageAfter(stage) ==
    CASE stage = "gather" -> "analyze"
      [] stage = "analyze" -> "detect_trends"
      [] stage = "detect_trends" -> "identify_opportunities"
      [] stage = "identify_opportunities" -> "generate_insights"
      [] stage = "generate_insights" -> "return"

\* variant: no except clause, the fault leaves run()
RunExceptReraise(e) == e

\* variant: the error object also carries the payload fields, empty
RunExceptPartial(e) ==
    Return([status |-> "error", error |-> e.msg, market_analysis |-> None, trends |-> None,
            opportunities |-> None, insights |-> None])

\* except Exception as e: return {'status': 'error', 'error': str(e)}
RunExcept(e) == Return([status |-> "error", error |-> e.msg])
\* the dict literal returned at lines 31-37
RunSuccess(market_analysis, trends, opportunities, insights) ==
    Return([status |-> "success", market_analysis |-> market_analysis, trends |-> trends,
            opportunities |-> opportunities, insights |-> insights])

\* _setup_data_sources (lines 43-51): True, or False when the connection set-up
\* in its try block raises; the shipped try block holds no set-up code yet
SetupFaults == {Return(<<>>)} \cup {Raise(m) : m \in FaultMsgs}
setup_data_sources(fault) == IF fault.kind = "raise" THEN FALSE ELSE TRUE
\* initialize (lines 13-15) returns what _setup_data_sources returned
initialize(fault) == setup_data_sources(fault)

\* variant: shutdown() reports failure when the agent was shut down before
shutdown_once(agent) == [ret |-> agent.shutdowns = 0, session |-> agent.session]
\* shutdown (lines 95-97): return True, no attribute is read or written
shutdown(agent) == [ret |-> TRUE, session |-> agent.session]

\* the research cycle as the orchestrator drives it:
\* idle -> initializing -> running -> {succeeded, failed} -> idle
LifeEdges ==
    {<<"idle", "initializing">>, <<"initializing", "running">>, <<"initializing", "failed">>,
     <<"running", "succeeded">>, <<"running", "failed">>,
     <<"succeeded", "idle">>, <<"failed", "idle">>}
\* variant: run() is called whatever initialize() returned
AfterInitializeUngated(ok) == "running"
\* the state that follows initializing: run() is called only when
\* initialize() returned True
AfterInitialize(ok) == IF ok THEN "running" ELSE "failed"

\* ---------------------------------------------------------------------- state
VARIABLES
    pc,         \* position of each run() invocation
    session,    \* MarketAnalyzer.session: 0 (None) or the id of a ClientSession
    sessions,   \* sessions[s]: "open" or "closed", for every session created
    acquired,   \* the session each gather_data call created (0: none)
    closedBy,   \* for every session, the calls that closed it and what each had acquired
    srcTag,     \* the 'source' identifier each fetcher puts in its result
    tasks,      \* the four fetch tasks of each gather_data call
    arrival,    \* task ids in the order in which they settled
    pending,    \* what the try block of gather_data ended with, kept over finally
    frame,      \* locals of run(): market_data, market_analysis, trends, ...
    result,     \* the value the last run() returned
    trace,      \* stage events of the current cycle: <<"start"|"end"|"raise", stage>>
    clock,      \* datetime.now(), in ticks since the agent was last idle
    bundles,    \* how many bundles _combine_data built in the current cycle
    faults,     \* the faults that occurred in the current cycle: [site, msg]
    cycles,     \* run() invocations so far
    life,       \* the state of the research cycle
    setup,      \* what the initialize() of this cycle returned: "none", "ok", "failed"
    shutdowns,  \* shutdown() calls so far
    shutdownOk  \* every shutdown() call so far returned True

vars == <<pc, session, sessions, acquired, closedBy, srcTag, tasks, arrival, pending, frame,
          result, trace, clock, bundles, faults, cycles, life, setup, shutdowns, shutdownOk>>
\* what only the caller of the agent changes: the cycle state and the record
\* of the initialize() and shutdown() calls
CallerVars == <<life, setup, shutdowns, shutdownOk>>

NoTask == [st |-> "none", on |-> 0, resp |-> None, out |-> None]
NewTask == [st |-> "created", on |-> 0, resp |-> None, out |-> None]
NoFrame == [market_data |-> None, market_analysis |-> None, trends |-> None,
            opportunities |-> None, insights |-> None]
NoResult == [status |-> "none"]

InitWith(tags) ==
    /\ pc = [c \in Slots |-> "idle"]
    /\ session = 0
    /\ sessions = <<>>
    /\ acquired = [c \in Slots |-> 0]
    /\ closedBy = <<>>
    /\ srcTag = tags
    /\ tasks = [c \in Slots |-> [i \in TaskIds |-> NoTask]]
    /\ arrival = [c \in Slots |-> <<>>]
    /\ pending = [c \in Slots |-> None]
    /\ frame = [c \in Slots |-> NoFrame]
    /\ result = [c \in Slots |-> NoResult]
    /\ trace = [c \in Slots |-> <<>>]
    /\ clock = 0
    /\ bundles = [c \in Slots |-> 0]
    /\ faults = [c \in Slots |-> {}]
    /\ cycles = 0
    /\ life = "idle"
    /\ setup = "none"
    /\ shutdowns = 0
    /\ shutdownOk = TRUE

Init == InitWith(SourceTags)

\* ---- how run() leaves a stage
\* when run() ends its frame is dropped: what is kept of it is a record of
\* which stages had produced a value, not the bundle itself
Discarded(f) == [f EXCEPT !.market_data = None]
\* when gather_data ends its tasks are dropped: what is kept of a task is
\* whether it ran, on which session, and what the endpoint answered
Dropped(t) == [t EXCEPT !.out = None]

\* variant: every stage has a try/except of its own that logs the fault and
\* lets run() go on with the next statement
AfterFaultContinue(stage) == StageAfter(stage)
\* the five stages are in one try block (lines 20-37): a fault in any of
\* them leaves the block for the except clause of lines 39-41
AfterFault(stage) == "except"

\* the stage raised e: the except clause of run() decides what the caller gets
StageRaises(c, stage, e, events, site) ==
    LET nxt == AfterFault(stage)
        f == frame[c]
        out == IF nxt = "except" THEN RunExcept(e)
               ELSE RunSuccess(f.market_analysis, f.trends, f.opportunities, f.insights) IN
    /\ pc' = [pc EXCEPT ![c] = IF nxt \notin {"except", "return"} THEN nxt
                               ELSE IF out.kind = "return" THEN "idle" ELSE "escaped"]
    /\ result' = [result EXCEPT ![c] = IF nxt \notin {"except", "return"} THEN @
                                       ELSE IF out.kind = "return" THEN out.value
                                       ELSE NoResult]
    /\ trace' = [trace EXCEPT ![c] = @ \o events \o << <<"raise", stage>> >>]
    /\ frame' = [frame EXCEPT ![c] = IF nxt \notin {"except", "return"} THEN @
                                     ELSE Discarded(@)]
    /\ faults' = [faults EXCEPT ![c] = @ \cup site]

\* the stage returned and its value is bound in the frame f
StageReturns(c, stage, f, events) ==
    LET nxt == StageAfter(stage) IN
    /\ pc' = [pc EXCEPT ![c] = IF nxt = "return" THEN "idle" ELSE nxt]
    /\ trace' = [trace EXCEPT ![c] = @ \o events \o << <<"end", stage>> >>]
    /\ frame' = [frame EXCEPT ![c] = IF nxt = "return" THEN Discarded(f) ELSE f]
    /\ result' = [result EXCEPT ![c] =
          IF nxt = "return"
          THEN RunSuccess(f.market_analysis, f.trends, f.opportunities, f.insights).value
          ELSE @]
    /\ UNCHANGED faults

\* ---- gather_data
\* variant: ClientSession() is called inside the try statement, so that the
\* finally clause runs self.session.close() on None
AcquireFailureInsideTry(e) == Raise(Str(<<"'NoneType' object has no attribute 'close'">>))

\* ClientSession() is called before the try statement: its fault leaves
\* gather_data as it is, and the finally clause does not run
AcquireFailure(e) == e

\* variant: the session is closed after the try block instead of in finally
SessionAfterSuccessOnly(state, outcome) ==
    IF outcome.kind = "return" THEN "closed" ELSE state

\* finally: await self.session.close() runs however the try block ended
SessionAfterFinally(state, outcome) == "closed"

\* variant: a session is created only when the analyzer has none yet
AcquireSessionIfNone(current, all) ==
    IF current = 0
    THEN [id |-> Len(all) + 1, all |-> Append(all, "open")]
    ELSE [id |-> current, all |-> all]

\* self.session = aiohttp.ClientSession() (line 20): every call creates a
\* session, whatever self.session was
AcquireSession(current, all) == [id |-> Len(all) + 1, all |-> Append(all, "open")]

\* run() is called: it enters gather_data, which creates the session and the
\* four tasks and suspends in asyncio.gather; if ClientSession() raises, the
\* fault reaches the except clause of run() before any task exists
Run(c) ==
    /\ pc[c] = "idle"
    /\ cycles < MaxCycles
    /\ cycles' = cycles + 1
    /\ arrival' = [arrival EXCEPT ![c] = <<>>]
    /\ pending' = [pending EXCEPT ![c] = None]
    /\ \E acq \in {Return(AcquireSession(session, sessions))}
                      \cup {Raise(m) : m \in FaultMsgs} :
        IF acq.kind = "raise"
        THEN /\ LET out == RunExcept(AcquireFailure(acq)) IN
                /\ pc' = [pc EXCEPT ![c] = IF out.kind = "return" THEN "idle" ELSE "escaped"]
                /\ result' = [result EXCEPT ![c] =
                                 IF out.kind = "return" THEN out.value ELSE NoResult]
             /\ trace' = [trace EXCEPT ![c] = << <<"start", "gather">>, <<"raise", "gather">> >>]
             /\ tasks' = [tasks EXCEPT ![c] = [i \in TaskIds |-> NoTask]]
             /\ acquired' = [acquired EXCEPT ![c] = 0]
             /\ faults' = [faults EXCEPT ![c] = {[site |-> "acquire", msg |-> acq.msg]}]
             /\ UNCHANGED <<session, sessions>>
        ELSE /\ pc' = [pc EXCEPT ![c] = "fanout"]
             /\ result' = [result EXCEPT ![c] = NoResult]
             /\ trace' = [trace EXCEPT ![c] = << <<"start", "gather">> >>]
             /\ tasks' = [tasks EXCEPT ![c] = [i \in TaskIds |-> NewTask]]
             /\ session' = acq.value.id
             /\ sessions' = acq.value.all
             /\ acquired' = [acquired EXCEPT ![c] = acq.value.id]
             /\ faults' = [faults EXCEPT ![c] = {}]
    /\ closedBy' = IF Len(sessions') > Len(sessions) THEN Append(closedBy, <<>>) ELSE closedBy
    /\ frame' = [frame EXCEPT ![c] = NoFrame]
    /\ bundles' = [bundles EXCEPT ![c] = 0]
    /\ clock' = IF \A d \in Slots : pc[d] = "idle" THEN 0 ELSE clock
    /\ UNCHANGED srcTag

\* a task settles with outcome out (what its coroutine returned or raised)
Settle(c, i, resp, out) ==
    /\ tasks' = [tasks EXCEPT ![c][i] = [st |-> "done", on |-> @.on, resp |-> resp, out |-> out]]
    /\ arrival' = [arrival EXCEPT ![c] = Append(@, i)]
    /\ clock' = clock + 1

\* a network fetcher starts: session.get() is issued on whatever
\* self.session is now; on a closed session get() raises at once
FetchStart(c, i) ==
    /\ tasks[c][i].st = "created"
    /\ IF sessions[session] = "open"
       THEN /\ tasks' = [tasks EXCEPT ![c][i] = [@ EXCEPT !.st = "inflight", !.on = session]]
            /\ UNCHANGED <<arrival, clock>>
       ELSE LET resp == [kind |-> "transport", msg |-> Str(<<"Session is closed">>)] IN
            /\ Settle(c, i, resp, Fetcher(i, srcTag[i], resp, clock))
    /\ UNCHANGED <<pc, session, sessions, acquired, closedBy, srcTag, pending, frame, result,
                   trace, bundles, faults, cycles>>

\* the request of a network fetcher ends (response or transport failure)
\* and the fetcher returns; a request on a session closed meanwhile fails
FetchSettle(c, i) ==
    /\ tasks[c][i].st = "inflight"
    /\ \E resp \in Responses :
        /\ sessions[tasks[c][i].on] = "closed" => resp.kind = "transport"
        /\ Settle(c, i, resp, Fetcher(i, srcTag[i], resp, clock))
    /\ UNCHANGED <<pc, session, sessions, acquired, closedBy, srcTag, pending, frame, result,
                   trace, bundles, faults, cycles>>

\* the social media fetcher has no request: it returns its stub at once
StubRun(c) ==
    /\ tasks[c][StubTask].st = "created"
    /\ Settle(c, StubTask, None, gather_social_media_trends(srcTag[StubTask], clock))
    /\ UNCHANGED <<pc, session, sessions, acquired, closedBy, srcTag, pending, frame, result,
                   trace, bundles, faults, cycles>>

\* asyncio.gather (return_exceptions=False): resumes when every task has
\* returned, with the results in task-list order, or as soon as one task has
\* raised, with that exception
\* the values of the settled tasks from task i on, in task-list order
RECURSIVE TaskResults(_, _)
TaskResults(c, i) ==
    IF i > Cardinality(TaskIds) THEN <<>>
    ELSE (IF tasks[c][i].st = "done" THEN <<tasks[c][i].out.value>> ELSE <<>>)
         \o TaskResults(c, i + 1)
Raised(c) ==
    {i \in TaskIds : tasks[c][i].st = "done" /\ tasks[c][i].out # None
                                             /\ tasks[c][i].out.kind = "raise"}
\* variant: asyncio.wait(..., return_when=FIRST_COMPLETED)
GatherReadyFirstCompleted(c) == \E i \in TaskIds : tasks[c][i].st = "done"
GatherReady(c) ==
    \/ \A i \in TaskIds : tasks[c][i].st = "done"
    \/ Raised(c) # {}
\* variant: asyncio.wait with a deadline, the task that settles last is
\* left out of the results
GatherOutcomeDropLast(c) ==
    LET kept == SelectSeq(<<1, 2, 3, 4>>, LAMBDA i : i # arrival[c][Len(arrival[c])]) IN
    Return([k \in 1..Len(kept) |-> tasks[c][kept[k]].out.value])
\* variant: the results are collected in completion order
GatherOutcomeAsCompleted(c) ==
    Return([k \in 1..Len(arrival[c]) |-> tasks[c][arrival[c][k]].out.value])

GatherOutcome(c) ==
    IF Raised(c) # {}
    THEN tasks[c][CHOOSE i \in Raised(c) : \A j \in 1..Len(arrival[c]) :
                      arrival[c][j] \in Raised(c) =>
                          \E k \in 1..j : arrival[c][k] = i].out
    ELSE Return(TaskResults(c, 1))

\* gather_data resumes from asyncio.gather and runs _combine_data; the value
\* or fault of the try block is held while the finally clause runs
Join(c) ==
    /\ pc[c] = "fanout"
    /\ GatherReady(c)
    /\ \E fault \in {Return(<<>>)} \cup {Raise(m) : m \in FaultMsgs} :
        LET results == GatherOutcome(c) IN
        /\ pending' = [pending EXCEPT ![c] =
              IF results.kind = "raise" THEN results
              ELSE IF fault.kind = "raise" THEN fault
              ELSE Return(combine_data(results.value, clock))]
        /\ clock' = IF results.kind = "raise" THEN clock ELSE clock + 1
        /\ bundles' = [bundles EXCEPT ![c] =
              IF results.kind = "return" /\ fault.kind = "return" THEN @ + 1 ELSE @]
        /\ faults' = [faults EXCEPT ![c] =
              IF results.kind = "return" /\ fault.kind = "raise"
              THEN @ \cup {[site |-> "combine", msg |-> fault.msg]} ELSE @]
    /\ pc' = [pc EXCEPT ![c] = "finally"]
    /\ UNCHANGED <<session, sessions, acquired, closedBy, srcTag, tasks, arrival, frame, result,
                   trace, cycles>>

\* finally: await self.session.close(); then gather_data returns the bundle
\* to run() or lets the fault propagate to the except clause of run()
Close(c) ==
    /\ pc[c] = "finally"
    /\ sessions' = [sessions EXCEPT ![session] = SessionAfterFinally(@, pending[c])]
    /\ closedBy' = [closedBy EXCEPT ![session] =
                        IF sessions'[session] = "closed"
                        THEN Append(@, [call |-> c, acquired |-> acquired[c]])
                        ELSE @]
    /\ IF pending[c].kind = "raise"
       THEN StageRaises(c, "gather", pending[c], <<>>, {})
       ELSE StageReturns(c, "gather", [frame[c] EXCEPT !.market_data = pending[c].value], <<>>)
    /\ tasks' = [tasks EXCEPT ![c] = [i \in TaskIds |-> Dropped(@[i])]]
    /\ arrival' = [arrival EXCEPT ![c] = <<>>]
    /\ pending' = [pending EXCEPT ![c] = None]
    /\ UNCHANGED <<session, acquired, srcTag, clock, bundles, cycles>>

\* ---- the stages of run() after the gather
StageVars ==
    <<session, sessions, acquired, closedBy, srcTag, tasks, arrival, pending, bundles, cycles>>

\* market_analysis = await self._analyze_market_data(market_data)
Analyze(c) ==
    /\ pc[c] = "analyze"
    /\ \E plan \in FaultPlans :
        LET out == analyze_data(frame[c].market_data, plan, clock) IN
        /\ clock' = IF AnalyzeReadsClock(plan) THEN clock + 1 ELSE clock
        /\ IF out.kind = "raise"
           THEN StageRaises(c, "analyze", out, << <<"start", "analyze">> >>,
                            {[site |-> plan.step, msg |-> plan.msg]})
           ELSE StageReturns(c, "analyze", [frame[c] EXCEPT !.market_analysis = out.value],
                             << <<"start", "analyze">> >>)
    /\ UNCHANGED StageVars

\* trends = await self._detect_trends(market_data)
DetectTrends(c) ==
    /\ pc[c] = "detect_trends"
    /\ \E outcome \in DetectOutcomes :
        LET out == detect_trends(frame[c].market_data, outcome) IN
        IF out.kind = "raise"
        THEN StageRaises(c, "detect_trends", out, << <<"start", "detect_trends">> >>,
                         {[site |-> "detect_trends", msg |-> out.msg]})
        ELSE StageReturns(c, "detect_trends", [frame[c] EXCEPT !.trends = out.value],
                          << <<"start", "detect_trends">> >>)
    /\ UNCHANGED <<StageVars, clock>>

\* opportunities = await self._identify_opportunities(trends)
IdentifyOpportunities(c) ==
    /\ pc[c] = "identify_opportunities"
    /\ \E fault \in OpportunityFaults :
        LET out == identify_opportunities(frame[c].trends, fault) IN
        IF out.kind = "raise"
        THEN StageRaises(c, "identify_opportunities", out,
                         << <<"start", "identify_opportunities">> >>,
                         {[site |-> "identify_opportunities", msg |-> out.msg]})
        ELSE StageReturns(c, "identify_opportunities",
                          [frame[c] EXCEPT !.opportunities = out.value],
                          << <<"start", "identify_opportunities">> >>)
    /\ UNCHANGED <<StageVars, clock>>

\* insights = await self._generate_insights(market_analysis, trends); return {...}
GenerateInsights(c) ==
    /\ pc[c] = "generate_insights"
    /\ \E fault \in InsightFaults :
        LET out == generate_insights(frame[c].market_analysis, frame[c].trends, fault) IN
        IF out.kind = "raise"
        THEN StageRaises(c, "generate_insights", out, << <<"start", "generate_insights">> >>,
                         {[site |-> "generate_insights", msg |-> out.msg]})
        ELSE StageReturns(c, "generate_insights", [frame[c] EXCEPT !.insights = out.value],
                          << <<"start", "generate_insights">> >>)
    /\ UNCHANGED <<StageVars, clock>>

\* ---------------------------------------------------------------- behaviours
\* a gather_data call in progress goes on
Gather(c) ==
    \/ \E i \in NetworkTasks : FetchStart(c, i)
    \/ \E i \in NetworkTasks : FetchSettle(c, i)
    \/ StubRun(c)
    \/ Join(c)
    \/ Close(c)
\* a run() in progress goes on
Resume(c) ==
    \/ Gather(c)
    \/ Analyze(c)
    \/ DetectTrends(c)
    \/ IdentifyOpportunities(c)
    \/ GenerateInsights(c)
Step(c) == Run(c) \/ Resume(c)

\* the scheduler awaits each run() before it calls the next one
Next == \E c \in Sequential : Step(c) /\ UNCHANGED CallerVars
Spec == Init /\ [][Next]_vars

TypeOK ==
    /\ pc \in [Slots -> {"idle", "fanout", "finally", "analyze", "detect_trends",
                         "identify_opportunities", "generate_insights", "escaped"}]
    /\ session \in 0..Len(sessions)
    /\ \A s \in 1..Len(sessions) : sessions[s] \in {"open", "closed"}
    /\ cycles \in 0..MaxCycles

\* the fetchers report source identifiers that are not all different: one
\* fetcher is given the identifier of another
DuplicateTags ==
    {[SourceTags EXCEPT ![2] = SourceTags[1]],
     [SourceTags EXCEPT ![4] = SourceTags[1]],
     [SourceTags EXCEPT ![1] = SourceTags[3]]}
InitDup == \E tags \in DuplicateTags : InitWith(tags)
SpecDup == InitDup /\ [][Next]_vars

\* every step the event loop can take is eventually taken: ready coroutines
\* are run, and every request ends (aiohttp's default total timeout)
FairSpec == Spec /\ WF_vars(Next)

\* run() is called again while an earlier run() is suspended in gather_data:
\* two gather_data calls are in progress on the one MarketAnalyzer; the
\* calls are followed until gather_data has returned
\* the overlap is followed for a network that answers: every request gets
\* a 200 response with a body that parses unless its session was closed, the
\* fetchers of a call reach session.get() in task-list order (the event loop
\* runs ready tasks first in, first out) and their requests end in that order
OverlapResponses ==
    {r \in Responses : r.kind = "http" /\ r.status = 200 /\ json(r.body).kind = "return"}
OverlapScenario ==
    \A c \in Slots :
        /\ \A i \in NetworkTasks :
              tasks[c][i].st = "done" =>
                  \/ tasks[c][i].resp \in OverlapResponses
                  \/ /\ tasks[c][i].resp.kind = "transport"
                     /\ tasks[c][i].on = 0 \/ sessions[tasks[c][i].on] = "closed"
        /\ \A i, j \in TaskIds :
              (i < j /\ tasks[c][j].st \notin {"none", "created"}) =>
                  tasks[c][i].st # "created"
        /\ \A k \in 1..(Len(arrival[c]) - 1) : arrival[c][k] < arrival[c][k + 1]
NextOverlap ==
    \E c \in Slots : (Run(c) \/ Gather(c)) /\ UNCHANGED CallerVars /\ OverlapScenario'
SpecOverlap == Init /\ [][NextOverlap]_vars

\* ---- the research cycle: the orchestrator calls initialize(), then run()
\* when initialize() succeeded, and shutdown() at any time between the calls
AgentVars == <<pc, session, sessions, acquired, closedBy, srcTag, tasks, arrival, pending, frame,
               result, trace, clock, bundles, faults, cycles>>
Initialize ==
    /\ life = "idle"
    /\ \E fault \in SetupFaults :
          setup' = IF initialize(fault) THEN "ok" ELSE "failed"
    /\ life' = "initializing"
    /\ UNCHANGED <<AgentVars, shutdowns, shutdownOk>>
Start(c) ==
    /\ life = "initializing"
    /\ AfterInitialize(setup = "ok") = "running"
    /\ Run(c)
    /\ life' = "running"
    /\ UNCHANGED <<setup, shutdowns, shutdownOk>>
Abort ==
    /\ life = "initializing"
    /\ AfterInitialize(setup = "ok") = "failed"
    /\ life' = "failed"
    /\ UNCHANGED <<AgentVars, setup, shutdowns, shutdownOk>>
Work(c) ==
    /\ life = "running"
    /\ Resume(c)
    /\ UNCHANGED CallerVars
Finish(c) ==
    /\ life = "running"
    /\ pc[c] = "idle"
    /\ life' = IF result[c].status = "success" THEN "succeeded" ELSE "failed"
    /\ UNCHANGED <<AgentVars, setup, shutdowns, shutdownOk>>
Rest ==
    /\ life \in {"succeeded", "failed"}
    /\ life' = "idle"
    /\ setup' = "none"
    /\ UNCHANGED <<AgentVars, shutdowns, shutdownOk>>
\* shutdown() is called while no run() is in progress
Shutdown ==
    /\ shutdowns < MaxShutdowns
    /\ \A c \in Slots : pc[c] = "idle"
    /\ LET out == shutdown([session |-> session, shutdowns |-> shutdowns]) IN
       /\ session' = out.session
       /\ shutdownOk' = (shutdownOk /\ out.ret)
    /\ shutdowns' = shutdowns + 1
    /\ UNCHANGED <<pc, sessions, acquired, closedBy, srcTag, tasks, arrival, pending, frame,
                   result, trace, clock, bundles, faults, cycles, life, setup>>
NextLife ==
    \/ Initialize
    \/ \E c \in Sequential : Start(c)
    \/ Abort
    \/ \E c \in Sequential : Work(c)
    \/ \E c \in Sequential : Finish(c)
    \/ Rest
    \/ Shutdown
SpecLife == Init /\ [][NextLife]_vars

\* ------------------------------------------------------------------- claims
Ended(c) == pc[c] = "idle" /\ trace[c] # <<>>
InGather(c) == pc[c] \in {"fanout", "finally"}
LastEvent(c) == trace[c][Len(trace[c])]
HasBundle(c) == pending[c] # None /\ pending[c].kind = "return"
Bundle(c) == pending[c].value
FetchFailed(c, i) ==
    /\ tasks[c][i].st = "done"
    /\ \/ tasks[c][i].resp.kind = "transport"
       \/ tasks[c][i].resp.status # 200
       \/ json(tasks[c][i].resp.body).kind = "raise"
AllFetchesFailed(c) == \A i \in NetworkTasks : FetchFailed(c, i)

\* C1: run() never raises: no run() invocation is ever left by an exception,
\* every run() that has ended returned an object whose status is 'success'
\* or 'error', and every run() that was started ends
RunReturned(c) == Ended(c) /\ result[c].status \in {"success", "error"}
C1_RunNeverRaises ==
    /\ [](\A c \in Slots : /\ pc[c] # "escaped"
                           /\ Ended(c) => result[c].status \in {"success", "error"})
    /\ \A c \in Sequential : (pc[c] # "idle") ~> RunReturned(c)
C1_Witness ==
    \E c \in Slots : /\ RunReturned(c)
                     /\ result[c].status = "error"
                     /\ LastEvent(c) = <<"raise", "generate_insights">>

\* C2: completeness: every bundle gather_data builds has exactly one entry
\* for each of the four sources, whatever the outcome of each fetch
C2_Completeness ==
    \A c \in Slots :
        /\ HasBundle(c) =>
              /\ DOMAIN Bundle(c).sources = {SourceTags[i] : i \in TaskIds}
              /\ Cardinality(DOMAIN Bundle(c).sources) = 4
        /\ frame[c].market_data # None =>
              DOMAIN frame[c].market_data.sources = {SourceTags[i] : i \in TaskIds}
C2_Witness ==
    \E c \in Slots :
        /\ HasBundle(c)
        /\ tasks[c][1].resp.kind = "http" /\ tasks[c][1].resp.status = 500
        /\ tasks[c][2].resp.kind = "transport"
        /\ tasks[c][3].resp.kind = "http" /\ tasks[c][3].resp.status = 200
        /\ FetchFailed(c, 3)

\* C3: isolation: a fetch that fails never raises out of its task, the gather
\* step fails only by a fault outside the fetch tasks, and a run() in which
\* every network fetch failed and no stage fault occurred returns 'success'
C3_Isolation ==
    \A c \in Slots :
        /\ Raised(c) = {}
        /\ (pending[c] # None /\ pending[c].kind = "raise") =>
              \E f \in faults[c] : f.site = "combine"
        /\ (Ended(c) /\ faults[c] = {}) => result[c].status = "success"
        /\ (Ended(c) /\ result[c].status = "error") => faults[c] # {}
C3_Witness ==
    \E c \in Slots : Ended(c) /\ AllFetchesFailed(c) /\ result[c].status = "success"

\* C4: resource release: once gather_data has ended, by returning or by a
\* fault, the session it acquired is closed, and no session is open while
\* no gather_data is in progress
C4_ResourceRelease ==
    /\ \A c \in Slots : (~InGather(c) /\ acquired[c] # 0) => sessions[acquired[c]] = "closed"
    /\ \A s \in 1..Len(sessions) :
          sessions[s] = "open" => \E c \in Slots : InGather(c) /\ acquired[c] = s
C4_Witness ==
    \E c \in Slots :
        /\ Ended(c)
        /\ \E f \in faults[c] : f.site = "combine"
        /\ \E i \in NetworkTasks : FetchFailed(c, i)
        /\ sessions[acquired[c]] = "closed"

\* C5: fan-in: the bundle exists, the session is closed, or gather_data is
\* past asyncio.gather only when all four fetch tasks have settled
AllSettled(c) == \A i \in TaskIds : tasks[c][i].st = "done"
C5_FanIn ==
    \A c \in Slots :
        (\/ HasBundle(c)
         \/ pc[c] = "finally"
         \/ (acquired[c] # 0 /\ sessions[acquired[c]] = "closed")) => AllSettled(c)
C5_Witness ==
    \E c \in Slots :
        /\ pc[c] = "finally" /\ HasBundle(c) /\ AllSettled(c)
        /\ arrival[c] = <<3, 4, 1, 2>>

\* C6: stage ordering: the stage events of a cycle follow the fixed order
\* gather, analyze, detect_trends, identify_opportunities, generate_insights,
\* each stage starting after the previous one has ended, and nothing starts
\* after a stage has raised
StageEvents(k) ==
    IF k % 2 = 1 THEN <<"start", Stages[(k + 1) \div 2]>> ELSE <<"end", Stages[k \div 2]>>
InOrder(t) ==
    /\ Len(t) <= 2 * Len(Stages)
    /\ \A k \in 1..Len(t) :
          \/ t[k] = StageEvents(k)
          \/ k = Len(t) /\ k % 2 = 0 /\ t[k] = <<"raise", Stages[k \div 2]>>
C6_StageOrdering == \A c \in Slots : InOrder(trace[c])
C6_Witness ==
    \E c \in Slots : Len(trace[c]) = 2 * Len(Stages) /\ result[c].status = "success"

\* C7 (as stated): of the results that carry one source identifier the
\* bundle keeps the one that settled last
TasksOf(tag) == {i \in TaskIds : srcTag[i] = tag}
Position(c, i) == CHOOSE k \in 1..Len(arrival[c]) : arrival[c][k] = i
LastSettled(c, tag) ==
    CHOOSE i \in TasksOf(tag) : \A j \in TasksOf(tag) : Position(c, j) <= Position(c, i)
LastInTaskOrder(tag) == CHOOSE i \in TasksOf(tag) : \A j \in TasksOf(tag) : j <= i
Answered(c, i, status, body) ==
    /\ tasks[c][i].st = "done"
    /\ tasks[c][i].resp = [kind |-> "http", status |-> status, body |-> body]
Scenario(c) ==
    /\ Answered(c, 1, 500, "<html>")
    /\ Answered(c, 2, 200, "{\"items\": [1]}")
    /\ Answered(c, 3, 200, "{\"items\": [1]}")
    /\ tasks[c][StubTask].st = "done"
ScenarioRest(c, b) ==
    /\ Cardinality(DOMAIN b.sources) = 4
    /\ b.sources["competitor_data"].data = [items |-> <<1>>]
    /\ b.sources["competitor_data"].error = None
    /\ b.sources["market_demands"].data = [items |-> <<1>>]
    /\ b.sources["market_demands"].error = None
    /\ b.sources["social_media"].data = [trends |-> <<>>]
    /\ b.sources["social_media"].error = None

\* C8 (as stated): in the scenario the bundle has 4 entries, the entry under
\* "trends" has the error "Failed to fetch data: 500", the other three have
\* data, and run() returns 'success'
C8_ScenarioTrendsKey ==
    \A c \in Slots : Scenario(c) =>
        /\ HasBundle(c) =>
              /\ ScenarioRest(c, Bundle(c))
              /\ "trends" \in DOMAIN Bundle(c).sources
              /\ Bundle(c).sources["trends"].error = Str(<<"Failed to fetch data: ", "500">>)
        /\ (Ended(c) /\ faults[c] = {}) => result[c].status = "success"

\* C8 (amended): in the scenario the bundle has 4 entries, the entry under
\* "industry_trends" has the error "Failed to fetch data: 500" and no data,
\* the other three have data, and run() returns 'success' unless a stage
\* after the gather raises
C8_Scenario ==
    \A c \in Slots : Scenario(c) =>
        /\ HasBundle(c) =>
              /\ ScenarioRest(c, Bundle(c))
              /\ "trends" \notin DOMAIN Bundle(c).sources
              /\ Bundle(c).sources["industry_trends"].error =
                     Str(<<"Failed to fetch data: ", "500">>)
              /\ Bundle(c).sources["industry_trends"].data = EmptyDict
        /\ (Ended(c) /\ faults[c] = {}) => result[c].status = "success"
C8_Witness ==
    \E c \in Slots : Scenario(c) /\ Ended(c) /\ bundles[c] = 1 /\ result[c].status = "success"

\* C9: when creating the session fails, no fetch task exists, no bundle is
\* built, no session is acquired, no later stage runs, and run() has
\* returned 'error' with the message of the fault
C9_AcquisitionFailure ==
    \A c \in Slots : \A f \in faults[c] : f.site = "acquire" =>
        /\ \A i \in TaskIds : tasks[c][i] = NoTask
        /\ bundles[c] = 0
        /\ acquired[c] = 0
        /\ frame[c] = NoFrame
        /\ trace[c] = << <<"start", "gather">>, <<"raise", "gather">> >>
        /\ pc[c] = "idle"
        /\ result[c] = [status |-> "error", error |-> f.msg]
C9_Witness ==
    \E c \in Slots :
        /\ Ended(c)
        /\ \E f \in faults[c] : f.site = "acquire"
        /\ result[c].status = "error"
        /\ Len(sessions) = 1

\* C10: when a facet or the recommendation step of analyze_data raises, no
\* report reaches run(), the fault raised is the original message prefixed
\* with 'Error analyzing market data: ', and run() returns 'error' with it
C10_AnalyzerWraps ==
    \A c \in Slots : \A f \in faults[c] : f.site \in AnalysisSteps =>
        /\ frame[c].market_analysis = None
        /\ LastEvent(c) = <<"raise", "analyze">>
        /\ pc[c] = "idle"
        /\ result[c] = [status |-> "error",
                        error |-> Str(<<"Error analyzing market data: ">> \o f.msg.str)]
C10_Witness ==
    \E c \in Slots :
        /\ Ended(c)
        /\ \E f \in faults[c] : f.site = "recommendations" /\ f.msg = Str(<<"bad value">>)
        /\ result[c].status = "error"

\* the message a network fetcher has to report for a response that failed
CapturedError(resp) ==
    IF resp.kind = "transport" THEN resp.msg
    ELSE IF resp.status # 200
         THEN Str(<<"Failed to fetch data: ", StatusText[resp.status]>>)
         ELSE json(resp.body).msg

\* C11: a network fetcher always returns a result and never raises: a
\* transport failure, a status other than 200 and a body that does not parse
\* are each reported in the 'error' field of the result under the fetcher's
\* source, and asyncio.gather never resumes with a fault of a fetch task
C11_FetcherNeverRaises ==
    \A c \in Slots :
        /\ \A i \in NetworkTasks :
              (tasks[c][i].st = "done" /\ tasks[c][i].out # None) =>
                  /\ tasks[c][i].out.kind = "return"
                  /\ tasks[c][i].out.value.source = srcTag[i]
                  /\ FetchFailed(c, i) =>
                        /\ "error" \in DOMAIN tasks[c][i].out.value
                        /\ tasks[c][i].out.value.error = CapturedError(tasks[c][i].resp)
        /\ (pc[c] = "fanout" /\ GatherReady(c)) => GatherOutcome(c).kind = "return"
C11_Witness ==
    \E c \in Slots :
        /\ pc[c] = "fanout" /\ GatherReady(c)
        /\ \A i \in NetworkTasks : tasks[c][i].st = "done" /\ tasks[c][i].out.kind = "return"
        /\ tasks[c][1].resp.kind = "transport"
        /\ tasks[c][2].resp.kind = "http" /\ tasks[c][2].resp.status = 500
        /\ tasks[c][3].resp.kind = "http" /\ tasks[c][3].resp.status = 200
        /\ json(tasks[c][3].resp.body).kind = "raise"

\* C12: every value run() returns has one of two shapes: the success object
\* with exactly the fields status = 'success', market_analysis, trends,
\* opportunities and insights, or the error object with exactly the fields
\* status = 'error' and error, a message
SuccessFields == {"status", "market_analysis", "trends", "opportunities", "insights"}
ErrorFields == {"status", "error"}
C12_TwoShapes ==
    \A c \in Slots :
        Ended(c) =>
            \/ /\ result[c].status = "success"
               /\ DOMAIN result[c] = SuccessFields
            \/ /\ result[c].status = "error"
               /\ DOMAIN result[c] = ErrorFields
               /\ DOMAIN result[c].error = {"str"}
C12_Witness ==
    \E c \in Slots :
        /\ Ended(c)
        /\ result[c].status = "error"
        /\ \E k \in 1..Len(trace[c]) : trace[c][k] = <<"end", "detect_trends">>

\* C15: every result a fetcher returns, on every path, has 'source' and
\* 'timestamp' and exactly one of 'data' and 'error': 'error' when the fetch
\* failed and 'data' when it did not; the bundle entry made of a result that
\* has 'error' has no data
ResultFields == {"source", "timestamp", "data", "error"}
FirstStamp(c) == tasks[c][arrival[c][1]].out.value.timestamp
InTaskOrder(c) ==
    CombineLoop([i \in TaskIds |->
                    IF i = StubTask
                    THEN gather_social_media_trends(srcTag[i], FirstStamp(c) + i - 1).value
                    ELSE Fetcher(i, srcTag[i], tasks[c][i].resp, FirstStamp(c) + i - 1).value],
                EmptyDict)
\* an entry without the time at which its fetch completed
Content(sources) ==
    [tag \in DOMAIN sources |-> [data |-> sources[tag].data, error |-> sources[tag].error]]

C17_NoCrossCycleReuse ==
    \A c \in Slots :
        /\ InGather(c) =>
              /\ acquired[c] = Len(sessions)
              /\ session = acquired[c]
              /\ \A s \in 1..(acquired[c] - 1) : sessions[s] = "closed"
              /\ pc[c] = "fanout" => sessions[acquired[c]] = "open"
        /\ \A i \in NetworkTasks :
              /\ tasks[c][i].st = "inflight" =>
                    /\ tasks[c][i].on = acquired[c]
                    /\ sessions[tasks[c][i].on] = "open"
              /\ tasks[c][i].st = "done" =>
                    /\ tasks[c][i].on = acquired[c]
                    /\ tasks[c][i].resp # [kind |-> "transport",
                                            msg |-> Str(<<"Session is closed">>)]
C17_Witness ==
    \E c \in Slots :
        /\ cycles = 2 /\ Len(sessions) = 2
        /\ pc[c] = "fanout"
        /\ sessions[1] = "closed"
        /\ tasks[c][1].st = "inflight" /\ tasks[c][1].on = 2
        /\ tasks[c][2].st = "done" /\ tasks[c][2].on = 2 /\ ~FetchFailed(c, 2)

\* C19: short-circuit on fault: when a stage raises, run() returns the error
\* object and no later stage of that cycle starts; a later run() can then be
\* called and starts a cycle that has nothing of the failed one: no task has
\* run, no local is bound, no fault is recorded and the session is new and
\* open
C19_ShortCircuit ==
    \A c \in Slots :
        /\ \A k \in 1..Len(trace[c]) :
              trace[c][k][1] = "raise" =>
                  /\ k = Len(trace[c])
                  /\ pc[c] = "idle"
                  /\ result[c].status = "error"
                  /\ Cardinality({j \in 1..k : trace[c][j][1] = "start"}) = k \div 2
        /\ (Ended(c) /\ result[c].status = "error" /\ cycles < MaxCycles) => ENABLED Run(c)
        /\ (pc[c] = "fanout" /\ \A i \in TaskIds : tasks[c][i].st = "created") =>
              /\ frame[c] = NoFrame
              /\ faults[c] = {}
              /\ trace[c] = << <<"start", "gather">> >>
              /\ session = Len(sessions) /\ sessions[session] = "open"
C19_Witness ==
    \E c \in Slots :
        /\ cycles = 2 /\ Len(sessions) = 1
        /\ Ended(c)
        /\ result[c].status = "success"
        /\ faults[c] = {}

C14_ShutdownIdempotent ==
    /\ [](shutdownOk)
    /\ [][shutdowns' # shutdowns =>
             /\ shutdowns' = shutdowns + 1
             /\ <<AgentVars, life, setup>>' = <<AgentVars, life, setup>>]_vars
C14_Witness ==
    /\ shutdowns = MaxShutdowns
    /\ shutdownOk
    /\ life = "failed"
    /\ cycles = 1
    /\ result[1].status = "error"

\* C18: exclusive session ownership under overlap: with two gather_data
\* calls in progress at the same time, the fetches of each call are issued
\* only on the session that call created, every session is closed exactly
\* once and by the call that created it, and no session is closed while a
\* fetch is pending on it
C18_ExclusiveOwnership ==
    /\ \A c \in Slots : \A i \in NetworkTasks :
          /\ tasks[c][i].on # 0 => tasks[c][i].on = acquired[c]
          /\ tasks[c][i].st = "inflight" => sessions[tasks[c][i].on] = "open"
    /\ \A s \in 1..Len(sessions) :
          /\ Len(closedBy[s]) <= 1
          /\ \A k \in 1..Len(closedBy[s]) : closedBy[s][k].acquired = s
    /\ \A c \in Slots :
          (~InGather(c) /\ acquired[c] # 0) => Len(closedBy[acquired[c]]) = 1

====
